---- MODULE Spec2Model ----
(***************************************************************************)
(* Model of nsctl/processes.py: the bottom-level executor _exec_cmd, the   *)
(* escalation resolver handle_ns, the public run/detach operations built   *)
(* on them and the child process they spawn; and the two process-table     *)
(* helpers find_bottom_children and process_exists, run against a process  *)
(* table whose processes exit while the helpers look at it.                *)
(*                                                                         *)
(* Python values: a str is a TLA+ string; an optional value (x | None) is  *)
(* the empty tuple for None and the one-element tuple <<x>> otherwise; a   *)
(* list[str] is a sequence of strings.  A command given as one string is   *)
(* kept as the sequence of its characters, which is what shlex.split       *)
(* scans.                                                                  *)
(***************************************************************************)
EXTENDS Integers, Sequences, FiniteSets, TLC

\* ------------------------------------------------------------------ bounds
\* longest pre-tokenized command (list[str]) a caller passes
MaxCmdLen == 1
\* largest exit status of the child; -1 (killed by a signal) is always included
MaxExitCode == 1
\* longest grace period of detach_and_check, in clock ticks
MaxWait == 1
\* number of processes in the process table the helpers look at
MaxProcs == 4

\* ------------------------------------------------------------ Python values
None == <<>>
Some(v) == <<v>>
\* Python truthiness of an optional str: None and "" are false
Truthy(o) == o # None /\ o[1] # ""

\* Escalate = Literal["sudo", "pkexec", None]
Escalate == {Some("sudo"), Some("pkexec"), None}

Digit == <<"0", "1", "2", "3", "4", "5", "6", "7", "8", "9">>
RECURSIVE StrNat(_)
StrNat(n) == IF n < 10 THEN Digit[n + 1] ELSE StrNat(n \div 10) \o Digit[(n % 10) + 1]
\* str(int)
str(n) == IF n < 0 THEN "-" \o StrNat(0 - n) ELSE StrNat(n)

RECURSIVE JoinFrom(_, _, _)
JoinFrom(sep, xs, i) ==
    IF i > Len(xs) THEN ""
    ELSE IF i = Len(xs) THEN xs[i]
    ELSE xs[i] \o sep \o JoinFrom(sep, xs, i + 1)
\* sep.join(xs)
Join(sep, xs) == JoinFrom(sep, xs, 1)

\* ------------------------------------------------------------- shlex.split
\* shlex in POSIX mode with whitespace_split and no commenters, as
\* shlex.split(cmd) sets it up.  A character of the command line is a
\* one-character string; a run of ordinary word characters with no blank,
\* quote or backslash in it may be written as one symbol.
Whitespace == {" ", "\t", "\n"}
Quotes == {"'", "\""}
EscapeChars == {"\\"}
EscapedQuotes == {"\""}

\* shlex.read_token's loop: st is the lexer state (" " between tokens, "a"
\* in a word, a quote character, the escape character), es the state to
\* go back to after an escape, tok the token so far, quoted whether the
\* token saw a quote, acc the tokens already returned.
RECURSIVE ShlexScan(_, _, _, _, _, _, _)
ShlexScan(s, i, st, es, tok, quoted, acc) ==
    LET eof == i > Len(s)
        c == s[i]
        emit == IF tok # "" \/ quoted THEN Append(acc, tok) ELSE acc
    IN  IF st = " " THEN
            IF eof THEN [ok |-> TRUE, toks |-> emit]
            ELSE IF c \in Whitespace THEN ShlexScan(s, i + 1, " ", es, "", FALSE, emit)
            ELSE IF c \in EscapeChars THEN ShlexScan(s, i + 1, c, "a", tok, quoted, acc)
            ELSE IF c \in Quotes THEN ShlexScan(s, i + 1, c, es, tok, quoted, acc)
            ELSE ShlexScan(s, i + 1, "a", es, c, quoted, acc)
        ELSE IF st \in Quotes THEN
            IF eof THEN [ok |-> FALSE, toks |-> <<>>]
            ELSE IF c = st THEN ShlexScan(s, i + 1, "a", es, tok, TRUE, acc)
            ELSE IF c \in EscapeChars /\ st \in EscapedQuotes
                 THEN ShlexScan(s, i + 1, c, st, tok, TRUE, acc)
            ELSE ShlexScan(s, i + 1, st, es, tok \o c, TRUE, acc)
        ELSE IF st \in EscapeChars THEN
            IF eof THEN [ok |-> FALSE, toks |-> <<>>]
            ELSE IF es \in Quotes /\ c # st /\ c # es
                 THEN ShlexScan(s, i + 1, es, es, tok \o st \o c, quoted, acc)
            ELSE ShlexScan(s, i + 1, es, es, tok \o c, quoted, acc)
        ELSE \* st = "a"
            IF eof THEN [ok |-> TRUE, toks |-> emit]
            ELSE IF c \in Whitespace THEN ShlexScan(s, i + 1, " ", es, "", FALSE, emit)
            ELSE IF c \in Quotes THEN ShlexScan(s, i + 1, c, es, tok, quoted, acc)
            ELSE IF c \in EscapeChars THEN ShlexScan(s, i + 1, c, "a", tok, quoted, acc)
            ELSE ShlexScan(s, i + 1, "a", es, tok \o c, quoted, acc)

\* shlex.split(s): ok = FALSE is the ValueError of an unclosed quotation or
\* a trailing escape
shlex_split(s) == ShlexScan(s, 1, " ", " ", "", FALSE, <<>>)

\* ------------------------------------------------------------ environment
\* What the operating system and the collaborators of nsctl.utils answer to
\* the lookups one call makes:
\*   which     shutil.which(escalate): the helper's path, None if it is not
\*             on the search path
\*   identity  get_uid(as_user), get_gid(as_user): <<uid, gid>>, None if the
\*             user is unknown
\*   check_ops check_ops(ns.namespaces): TRUE if the caller may perform the
\*             namespace operations without elevation
HelperPaths(tool) ==
    IF tool = "sudo" THEN {"/usr/bin/sudo", "/bin/sudo"} ELSE {"/usr/bin/pkexec"}
WhichAnswers(escalate) ==
    IF escalate = None THEN {None}
    ELSE {None} \cup {Some(p) : p \in HelperPaths(escalate[1])}
\* the users the identity resolver knows
KnownUsers == {"alice"}
IdentityAnswers(ns_pid, as_user) ==
    IF ns_pid = None \/ ~Truthy(as_user) THEN {None}
    ELSE IF as_user[1] \in KnownUsers THEN {Some(<<1000, 1000>>), Some(<<1001, 100>>)}
    ELSE {None}

\* get_uid(as_user) of nsctl.utils; raises when os.identity is None
get_uid(os, as_user) == os.identity[1][1]
\* get_gid(as_user) of nsctl.utils
get_gid(os, as_user) == os.identity[1][2]
\* check_ops(namespaces) of nsctl.utils
check_ops(policy, namespaces) == policy
\* shutil.which(tool)
which(os, tool) == os.which

\* ------------------------------------------------------------------ values
\* what a call gives back: a returned value (kind is its Python type) or a
\* raised exception (kind = "raise", type and what name it)
Value(kind, returncode, stdout) ==
    [kind |-> kind, type |-> "", what |-> "", returncode |-> returncode, stdout |-> stdout]
Raise(type, what, returncode, stdout) ==
    [kind |-> "raise", type |-> type, what |-> what, returncode |-> returncode,
     stdout |-> stdout]
Pending == Value("pending", None, None)
ReturnNone == Value("None", None, None)

\* the keyword arguments of _exec_cmd at their defaults
DefaultArgs ==
    [cmd |-> <<"list", <<>>>>, detach |-> FALSE, capture_output |-> FALSE,
     check |-> FALSE, dry_run |-> FALSE, verbose |-> FALSE, env |-> None,
     ns_pid |-> None, working_dir |-> None, escalate |-> None, as_user |-> None,
     passthrough |-> FALSE]

\* where _exec_cmd stops before it touches a process: step is "raise",
\* "return" (dry run), "Popen" or "run"
Stop(step, exc, cmd_args, printed, popen) ==
    [step |-> step, exc |-> exc, cmd_args |-> cmd_args, printed |-> printed,
     popen |-> popen]
NoPopen ==
    [stdin |-> "", stdout |-> "", stderr |-> "", env |-> None,
     start_new_session |-> FALSE, capture_output |-> FALSE, check |-> FALSE]
Fail(type, what, cmd_args) ==
    Stop("raise", Raise(type, what, None, None), cmd_args, <<>>, NoPopen)

\* the validation left out of a dry run
InvalidSwitches_unless_dry_run(a) == a.detach /\ a.capture_output /\ ~a.dry_run
\* validate: detach with capture_output
InvalidSwitches(a) == a.detach /\ a.capture_output

\* cmd_args of a str (shlex.split) or of a list (a copy)
Tokenize(a) ==
    IF a.cmd[1] = "str" THEN shlex_split(a.cmd[2]) ELSE [ok |-> TRUE, toks |-> a.cmd[2]]

\* the user resolved only when a process is going to be spawned
ResolvesUser_unless_dry_run(a) == a.ns_pid # None /\ Truthy(a.as_user) /\ ~a.dry_run
\* whether the nsenter block calls get_uid and get_gid
ResolvesUser(a) == a.ns_pid # None /\ Truthy(a.as_user)

\* the working directory appended after the end-of-options marker
NsCmd_wd_after_marker(a, os) ==
    <<"nsenter", "-t", str(a.ns_pid[1]), "--all">>
    \o (IF ResolvesUser(a)
        THEN <<"--setuid=" \o str(get_uid(os, a.as_user[1])),
               "--setgid=" \o str(get_gid(os, a.as_user[1]))>>
        ELSE <<>>)
    \o <<"--">>
    \o (IF Truthy(a.working_dir) THEN <<"--wd=" \o a.working_dir[1]>> ELSE <<>>)
\* ns_cmd: nsenter -t <pid> --all [--wd=<dir>] [--setuid=<uid> --setgid=<gid>] --
NsCmd(a, os) ==
    <<"nsenter", "-t", str(a.ns_pid[1]), "--all">>
    \o (IF Truthy(a.working_dir) THEN <<"--wd=" \o a.working_dir[1]>> ELSE <<>>)
    \o (IF ResolvesUser(a)
        THEN <<"--setuid=" \o str(get_uid(os, a.as_user[1])),
               "--setgid=" \o str(get_gid(os, a.as_user[1]))>>
        ELSE <<>>)
    \o <<"--">>

\* the nsenter block: cmd_args = ns_cmd + cmd_args
NsWrap(a, os, toks) == IF a.ns_pid # None THEN NsCmd(a, os) \o toks ELSE toks

\* whether the escalate block raises: a helper is asked for and which() is None
HelperMissing(a, os) == a.escalate # None /\ which(os, a.escalate[1]) = None

\* the escalate block: cmd_args = [helper, "-n"] + cmd_args
EscalateWrap(a, os, rest) ==
    IF a.escalate # None THEN <<which(os, a.escalate[1])[1], "-n">> \o rest ELSE rest

\* the detach branch tested before the dry-run branch
ExecMode_detach_first(a) ==
    IF a.detach THEN "Popen" ELSE IF a.dry_run THEN "return" ELSE "run"
\* the branch _exec_cmd takes once cmd_args is built
ExecMode(a) == IF a.dry_run THEN "return" ELSE IF a.detach THEN "Popen" ELSE "run"

\* the streams discarded when passthrough is set, and only then
DetachStream_inverted(a) == IF a.passthrough THEN "DEVNULL" ELSE "inherit"
\* stdin, stdout and stderr of a detached child: subprocess.DEVNULL, or None
\* (the caller's own stream) with passthrough
DetachStream(a) == IF a.passthrough THEN "inherit" ELSE "DEVNULL"

\* the dry-run return, the detached Popen or the foreground subprocess.run
Dispatch(a, cmd_args) ==
    IF ExecMode(a) = "return"
    THEN Stop("return", None, cmd_args, <<"DRY-RUN: " \o Join(" ", cmd_args)>>, NoPopen)
    ELSE IF ExecMode(a) = "Popen"
    THEN Stop("Popen", None, cmd_args,
              IF a.verbose THEN <<"DETACH: " \o Join(" ", cmd_args)>> ELSE <<>>,
              [stdin |-> DetachStream(a), stdout |-> DetachStream(a),
               stderr |-> DetachStream(a),
               env |-> a.env, start_new_session |-> TRUE,
               capture_output |-> FALSE, check |-> FALSE])
    ELSE Stop("run", None, cmd_args,
              IF a.verbose THEN <<"RUN: " \o Join(" ", cmd_args)>> ELSE <<>>,
              [stdin |-> "inherit", stdout |-> "inherit", stderr |-> "inherit",
               env |-> a.env, start_new_session |-> FALSE,
               capture_output |-> a.capture_output, check |-> a.check])

\* a missing helper skipped: the command goes on without escalation
_exec_cmd_helper_dropped(a, os) ==
    IF InvalidSwitches(a) THEN Fail("ValueError", "detach_with_capture_output", <<>>)
    ELSE IF ~Tokenize(a).ok THEN Fail("ValueError", "shlex", <<>>)
    ELSE IF ResolvesUser(a) /\ os.identity = None
         THEN Fail("LookupError", "unknown_user", Tokenize(a).toks)
    ELSE IF HelperMissing(a, os)
         THEN Dispatch(a, NsWrap(a, os, Tokenize(a).toks))
    ELSE Dispatch(a, EscalateWrap(a, os, NsWrap(a, os, Tokenize(a).toks)))
\* the helper looked up before the user is resolved
_exec_cmd_helper_first(a, os) ==
    IF InvalidSwitches(a) THEN Fail("ValueError", "detach_with_capture_output", <<>>)
    ELSE IF ~Tokenize(a).ok THEN Fail("ValueError", "shlex", <<>>)
    ELSE IF HelperMissing(a, os)
         THEN Fail("RuntimeError", "helper_not_found", Tokenize(a).toks)
    ELSE IF ResolvesUser(a) /\ os.identity = None
         THEN Fail("LookupError", "unknown_user", Tokenize(a).toks)
    ELSE Dispatch(a, EscalateWrap(a, os, NsWrap(a, os, Tokenize(a).toks)))
\* the nsenter prefix put outside the escalation prefix
_exec_cmd_nsenter_outermost(a, os) ==
    IF InvalidSwitches(a) THEN Fail("ValueError", "detach_with_capture_output", <<>>)
    ELSE IF ~Tokenize(a).ok THEN Fail("ValueError", "shlex", <<>>)
    ELSE IF ResolvesUser(a) /\ os.identity = None
         THEN Fail("LookupError", "unknown_user", Tokenize(a).toks)
    ELSE IF HelperMissing(a, os)
         THEN Fail("RuntimeError", "helper_not_found", NsWrap(a, os, Tokenize(a).toks))
    ELSE Dispatch(a, NsWrap(a, os, EscalateWrap(a, os, Tokenize(a).toks)))
\* _exec_cmd up to the point where it returns, raises or hands cmd_args to
\* subprocess
_exec_cmd(a, os) ==
    IF InvalidSwitches(a) THEN Fail("ValueError", "detach_with_capture_output", <<>>)
    ELSE IF ~Tokenize(a).ok THEN Fail("ValueError", "shlex", <<>>)
    ELSE IF ResolvesUser(a) /\ os.identity = None
         THEN Fail("LookupError", "unknown_user", Tokenize(a).toks)
    ELSE IF HelperMissing(a, os)
         THEN Fail("RuntimeError", "helper_not_found", NsWrap(a, os, Tokenize(a).toks))
    ELSE Dispatch(a, EscalateWrap(a, os, NsWrap(a, os, Tokenize(a).toks)))

\* the policy asked whatever mode the caller gave
handle_ns_policy_first(ns, escalate, policy) ==
    IF ns = None THEN <<None, escalate>>
    ELSE IF ~check_ops(policy, ns[1].namespaces)
         THEN <<Some(ns[1].pid), Some("sudo")>>
         ELSE <<Some(ns[1].pid), escalate>>
\* the policy's answer read the wrong way round
handle_ns_inverted(ns, escalate, policy) ==
    IF ns = None THEN <<None, escalate>>
    ELSE IF escalate = None /\ check_ops(policy, ns[1].namespaces)
         THEN <<Some(ns[1].pid), Some("sudo")>>
         ELSE <<Some(ns[1].pid), escalate>>
\* handle_ns(ns, escalate): <<ns_pid, escalate>>; policy is the answer
\* check_ops gives if it is asked
handle_ns(ns, escalate, policy) ==
    IF ns = None THEN <<None, escalate>>
    ELSE IF escalate = None /\ ~check_ops(policy, ns[1].namespaces)
         THEN <<Some(ns[1].pid), Some("sudo")>>
         ELSE <<Some(ns[1].pid), escalate>>
\* whether handle_ns calls check_ops
ConsultsPolicy(ns, escalate) == ns # None /\ escalate = None

\* ------------------------------------------------------------------ inputs
BOOL == {FALSE, TRUE}
UserTokens == {"ls", "nsenter"}
\* list[str] commands: every token sequence up to MaxCmdLen
CmdLists == UNION {[1..n -> UserTokens] : n \in 0..MaxCmdLen}
\* str commands, as the characters shlex.split scans: ls | ls 'a b' | 'ls
\* (unclosed quotation) | /usr/bin/sudo -n nsenter -- (the wrappers' own
\* tokens as the user's command)
CmdStrings ==
    { <<"l", "s">>,
      <<"l", "s", " ", "'", "a", " ", "b", "'">>,
      <<"'", "l", "s">>,
      <<"/usr/bin/sudo", " ", "-n", " ", "nsenter", " ", "--">> }
Cmds == {<<"list", c>> : c \in CmdLists} \cup {<<"str", c>> : c \in CmdStrings}
Users == {"alice", "ghost"}
AsUsers == {None} \cup {Some(u) : u \in Users}
\* NSInfo: the pid of the target and its namespace kinds
NSInfos == {[pid |-> 1234, namespaces |-> {"net"}], [pid |-> 7, namespaces |-> {"mnt", "net"}]}
NsArgs == {None} \cup {Some(n) : n \in NSInfos}
NsPids == {None, Some(1234)}
WorkingDirs == {None, Some(""), Some("/srv")}
\* os.getcwd(): an absolute path, never empty
Cwd == "/home/op"
EnvMaps == {None}
ExitCodes == (-1)..MaxExitCode
\* what the child writes to a captured stdout
Outputs == {"", "hi\n"}

\* ------------------------------------------------------------------- state
VARIABLES
    pc,        \* "idle" | "blocked" (in subprocess.run) | "waiting" (in process.wait) | "done"
    op,        \* the operation called
    pub,       \* the public operation's ns, escalate and wait_time arguments
    args,      \* the keyword arguments _exec_cmd was called with
    os,        \* the environment's answers: which, identity, check_ops
    cmd_args,  \* the argument vector as far as _exec_cmd built it
    printed,   \* the lines printed
    spawns,    \* the processes spawned: one record of Popen/run arguments each
    proc,      \* the child process
    elapsed,   \* clock ticks since process.wait(timeout) began
    outcome,   \* what _exec_cmd returned or raised
    ret,       \* what the called operation returned or raised
    ptable,    \* the process table: each pid's parent, and the pids alive
    walk       \* the call of find_bottom_children or process_exists

vars == <<pc, op, pub, args, os, cmd_args, printed, spawns, proc, elapsed, outcome, ret,
          ptable, walk>>

\* exit_at and exit_pc: the clock and the caller's position when the child exited
NoProc ==
    [state |-> "none", returncode |-> None, out |-> "", exit_at |-> None, exit_pc |-> ""]
DefaultPub == [ns |-> None, escalate |-> None, given |-> FALSE, wait_time |-> 0]

\* the pids of the process table; parent 0 is a process outside it (init)
Pids == 1..MaxProcs
\* the pids a caller passes: MaxProcs + 1 has never been a process
PidArgs == 1..(MaxProcs + 1)
\* process trees rooted at pid 1: a child is younger than its parent
Trees == {f \in [Pids -> 0..MaxProcs] : f[1] = 0 /\ \A p \in Pids \ {1} : f[p] \in 1..(p - 1)}
\* a table of unrelated processes
FlatTable == [parent |-> [p \in Pids |-> 0], alive |-> Pids]
\* what a helper returned or raised: a list of processes (their pids), a
\* bool, None, or an exception
NoResult == [kind |-> "pending", leaves |-> <<>>, answer |-> FALSE, exc |-> ""]
ListResult(l) == [NoResult EXCEPT !.kind = "list", !.leaves = l]
BoolResult(b) == [NoResult EXCEPT !.kind = "bool", !.answer = b]
NoneResult == [NoResult EXCEPT !.kind = "None"]
Raised(e) == [NoResult EXCEPT !.kind = "raise", !.exc = e]
\* no helper called yet.  callers are the find_bottom_children calls waiting
\* in their for loop, outermost first: pid, the children still to visit and
\* bottom; pid is the pid of the call that is running
WalkIdle ==
    [pc |-> "idle", fn |-> "", root |-> 0, pid |-> 0, callers |-> <<>>, ret |-> NoResult,
     via |-> "", steps |-> 0, changed |-> FALSE, stale |-> {}]

\* the state of the executor before any call
NothingCalled ==
    /\ pc = "idle"
    /\ op = ""
    /\ pub = DefaultPub
    /\ args = DefaultArgs
    /\ os = [which |-> None, identity |-> None, check_ops |-> None]
    /\ cmd_args = <<>>
    /\ printed = <<>>
    /\ spawns = <<>>
    /\ proc = NoProc
    /\ elapsed = 0
    /\ outcome = Pending
    /\ ret = Pending
Init ==
    /\ NothingCalled
    /\ ptable = FlatTable
    /\ walk = WalkIdle

\* ------------------------------------------------------ the callers' tails
\* the lines after the _exec_cmd call in each public operation, given what
\* _exec_cmd returned
ExpectCompleted(o, v) ==
    IF o.kind # "CompletedProcess"
    THEN Raise("RuntimeError", "expected_CompletedProcess", None, None)
    ELSE v
CallerTail(operation, o) ==
    IF o.kind = "raise" THEN o
    ELSE IF operation \in {"run", "run_check"} THEN ReturnNone
    ELSE IF operation = "run_check_output"
         THEN ExpectCompleted(o, Value("str", None, o.stdout))
    ELSE IF operation = "run_code_output"
         THEN ExpectCompleted(o, Value("tuple", o.returncode, o.stdout))
    ELSE IF operation \in {"run_check_code", "run_code_passthrough"}
         THEN ExpectCompleted(o, Value("int", o.returncode, None))
    ELSE IF operation \in {"detach", "detach_and_check"}
         THEN IF o.kind # "Popen"
              THEN Raise("RuntimeError", "expected_Popen", None, None)
              ELSE o
    ELSE o

\* only a positive return code taken for a failure
subprocess_run_result_positive(a, p) ==
    LET captured == IF a.capture_output THEN Some(p.out) ELSE None
    IN  IF a.check /\ p.returncode[1] > 0
        THEN Raise("CalledProcessError", "nonzero_exit", p.returncode, captured)
        ELSE Value("CompletedProcess", p.returncode, captured)
\* subprocess.run after the child has exited: CalledProcessError if check
\* and the return code is not 0, else CompletedProcess
subprocess_run_result(a, p) ==
    LET captured == IF a.capture_output THEN Some(p.out) ELSE None
    IN  IF a.check /\ p.returncode[1] # 0
        THEN Raise("CalledProcessError", "nonzero_exit", p.returncode, captured)
        ELSE Value("CompletedProcess", p.returncode, captured)

\* a return code of 0 within the grace period taken for success
WaitResult_zero_succeeds(o, p) ==
    IF p.returncode[1] = 0 THEN o
    ELSE Raise("RuntimeError", "exited_immediately", p.returncode, None)
\* detach_and_check after process.wait(timeout=wait_time) returned the
\* return code of process p: the raise inside the try block
WaitResult(o, p) == Raise("RuntimeError", "exited_immediately", p.returncode, None)

\* a process started by the dry-run branch as well
Started_also_dry_run(x, launched) ==
    x.step \in {"Popen", "run", "return"} /\ launched /\ Len(x.cmd_args) > 0
\* whether the call starts a process: only subprocess.Popen and
\* subprocess.run do, if the operating system can start the program
Started(x, launched) == x.step \in {"Popen", "run"} /\ launched /\ Len(x.cmd_args) > 0

\* ----------------------------------------------------------------- actions
\* One call of `operation`: _exec_cmd(a) under the environment answers e,
\* up to its return, its raise or the spawn.  launched is whether the
\* operating system could start the program (subprocess raises otherwise).
Invoke(operation, p, a, e, launched) ==
    \E x \in {_exec_cmd(a, e)} :
      LET spawnfail == Raise(IF Len(x.cmd_args) = 0 THEN "IndexError" ELSE "OSError",
                             "spawn_failed", None, None)
          started == Started(x, launched)
          o == IF x.step = "raise" THEN x.exc
               ELSE IF x.step = "return" THEN ReturnNone
               ELSE IF ~started THEN spawnfail
               ELSE IF x.step = "Popen" THEN Value("Popen", None, None)
               ELSE Pending
      IN  /\ x.step \in {"raise", "return"} => launched
          /\ op' = operation
          /\ pub' = p
          /\ UNCHANGED <<ptable, walk>>
          /\ args' = a
          /\ os' = e
          /\ cmd_args' = x.cmd_args
          /\ printed' = x.printed
          /\ spawns' = IF started THEN <<[argv |-> x.cmd_args] @@ x.popen>> ELSE <<>>
          /\ proc' = IF started THEN [NoProc EXCEPT !.state = "running"] ELSE NoProc
          /\ elapsed' = 0
          /\ outcome' = o
          /\ IF o = Pending
             THEN pc' = "blocked" /\ ret' = Pending
             ELSE IF operation = "detach_and_check" /\ CallerTail(operation, o).kind = "Popen"
             THEN pc' = "waiting" /\ ret' = Pending
             ELSE pc' = "done" /\ ret' = CallerTail(operation, o)

\* a direct call of the bottom-level executor
Call_exec_cmd ==
    /\ pc = "idle"
    /\ \E c \in Cmds, d \in BOOL, cap \in BOOL, chk \in BOOL, dry \in BOOL, vb \in BOOL,
       pt \in BOOL, ev \in EnvMaps, np \in NsPids, wd \in WorkingDirs, esc \in Escalate,
       u \in AsUsers, launched \in BOOL :
      \E w \in WhichAnswers(esc), id \in IdentityAnswers(np, u) :
        Invoke("_exec_cmd", DefaultPub,
               [cmd |-> c, detach |-> d, capture_output |-> cap, check |-> chk,
                dry_run |-> dry, verbose |-> vb, env |-> ev, ns_pid |-> np,
                working_dir |-> wd, escalate |-> esc, as_user |-> u, passthrough |-> pt],
               [which |-> w, identity |-> id, check_ops |-> None], launched)

\* The public operations: work_dir = os.getcwd(), handle_ns, then _exec_cmd
\* with the operation's fixed switches.  given is whether the caller wrote
\* the escalate argument; left out, it is None.
Public(operation, d, cap, chk, pt, waits) ==
    /\ pc = "idle"
    /\ \E c \in Cmds, dry \in BOOL, vb \in BOOL, ev \in EnvMaps, esc \in Escalate,
       given \in BOOL, ns \in NsArgs, u \in AsUsers, wt \in waits, launched \in BOOL :
      /\ ~given => esc = None
      /\ \E pol \in IF ConsultsPolicy(ns, esc) THEN BOOL ELSE {FALSE} :
           LET h == handle_ns(ns, esc, pol)
           IN  \E w \in WhichAnswers(h[2]), id \in IdentityAnswers(h[1], u) :
                 Invoke(operation,
                        [ns |-> ns, escalate |-> esc, given |-> given, wait_time |-> wt],
                        [cmd |-> c, detach |-> d, capture_output |-> cap, check |-> chk,
                         dry_run |-> dry, verbose |-> vb, env |-> ev, ns_pid |-> h[1],
                         working_dir |-> Some(Cwd), escalate |-> h[2], as_user |-> u,
                         passthrough |-> pt],
                        [which |-> w, identity |-> id,
                         check_ops |-> IF ConsultsPolicy(ns, esc) THEN Some(pol) ELSE None],
                        launched)

run == Public("run", FALSE, FALSE, FALSE, FALSE, {0})
run_check == Public("run_check", FALSE, FALSE, TRUE, FALSE, {0})
run_check_output == Public("run_check_output", FALSE, TRUE, TRUE, FALSE, {0})
run_code_output == Public("run_code_output", FALSE, TRUE, TRUE, FALSE, {0})
run_check_code == Public("run_check_code", FALSE, FALSE, TRUE, FALSE, {0})
run_code_passthrough == Public("run_code_passthrough", FALSE, FALSE, FALSE, TRUE, {0})
detach == Public("detach", TRUE, FALSE, FALSE, FALSE, {0})
\* detach_and_check up to process.wait(timeout=wait_time)
detach_and_check == Public("detach_and_check", TRUE, FALSE, FALSE, FALSE, 0..MaxWait)

\* the child exits, whenever it likes, with any exit status
ChildExit ==
    /\ proc.state = "running"
    /\ \E code \in ExitCodes, out \in IF args.capture_output THEN Outputs ELSE {""} :
         proc' = [state |-> "exited", returncode |-> Some(code), out |-> out,
                  exit_at |-> Some(elapsed), exit_pc |-> pc]
    /\ UNCHANGED <<ptable, walk, pc, op, pub, args, os, cmd_args, printed, spawns, elapsed, outcome, ret>>

\* subprocess.run returns once the child has exited, and the operation that
\* called _exec_cmd finishes
RunReturns ==
    /\ pc = "blocked"
    /\ proc.state = "exited"
    /\ outcome' = subprocess_run_result(args, proc)
    /\ ret' = CallerTail(op, outcome')
    /\ pc' = "done"
    /\ UNCHANGED <<ptable, walk, op, pub, args, os, cmd_args, printed, spawns, proc, elapsed>>

\* the clock of process.wait(timeout=wait_time)
Tick ==
    /\ pc = "waiting"
    /\ proc.state = "running"
    /\ elapsed < pub.wait_time
    /\ elapsed' = elapsed + 1
    /\ UNCHANGED <<ptable, walk, pc, op, pub, args, os, cmd_args, printed, spawns, proc, outcome, ret>>

\* process.wait returned the return code: detach_and_check raises
WaitReturns ==
    /\ pc = "waiting"
    /\ proc.state = "exited"
    /\ ret' = WaitResult(outcome, proc)
    /\ pc' = "done"
    /\ UNCHANGED <<ptable, walk, op, pub, args, os, cmd_args, printed, spawns, proc, elapsed, outcome>>

\* process.wait raised TimeoutExpired: detach_and_check returns the handle
WaitTimesOut ==
    /\ pc = "waiting"
    /\ proc.state = "running"
    /\ elapsed >= pub.wait_time
    /\ ret' = outcome
    /\ pc' = "done"
    /\ UNCHANGED <<ptable, walk, op, pub, args, os, cmd_args, printed, spawns, proc, elapsed, outcome>>

Next ==
    \/ Call_exec_cmd
    \/ run
    \/ run_check
    \/ run_check_output
    \/ run_code_output
    \/ run_check_code
    \/ run_code_passthrough
    \/ detach
    \/ detach_and_check
    \/ ChildExit
    \/ RunReturns
    \/ Tick
    \/ WaitReturns
    \/ WaitTimesOut

Spec == Init /\ [][Next]_vars

\* ------------------------------------------------- the process-table helpers
execvars == <<pc, op, pub, args, os, cmd_args, printed, spawns, proc, elapsed, outcome, ret>>

\* a set of pids as a list, in increasing order (the order of psutil.pids())
RECURSIVE Ascending(_)
Ascending(S) ==
    IF S = {} THEN <<>>
    ELSE LET m == CHOOSE x \in S : \A y \in S : x <= y
         IN  <<m>> \o Ascending(S \ {m})
\* psutil.Process(pid) raises NoSuchProcess for a pid that is not alive
NoSuchProcess(pt, pid) == pid \notin pt.alive
\* process.children(): the live processes whose parent is pid
children(pt, pid) == Ascending({c \in pt.alive : pt.parent[c] = pid})
\* process.children() on a process that has exited since psutil.Process(pid):
\* psutil raises NoSuchProcess where it first checks that the process is
\* running, and finds no child (the orphans have a new parent) where it does
\* not
GoneChildren == {"NoSuchProcess", "empty"}

\* the for loop keeping only the last child's result
RECURSIVE Unwind_overwrite(_, _)
Unwind_overwrite(callers, v) ==
    IF callers = <<>>
    THEN [pc |-> "done", pid |-> 0, callers |-> <<>>, ret |-> ListResult(v)]
    ELSE LET n == Len(callers)
             top == callers[n]
         IN  IF top.todo = <<>>
             THEN Unwind_overwrite(SubSeq(callers, 1, n - 1), v)
             ELSE [pc |-> "lookup", pid |-> Head(top.todo),
                   callers |-> [callers EXCEPT ![n] = [pid |-> top.pid, todo |-> Tail(top.todo),
                                                       bottom |-> v]],
                   ret |-> NoResult]
\* the running call returns v: the caller extends its bottom with v and
\* calls find_bottom_children on its next child, or returns bottom after the
\* last child; the outermost call's return ends the walk
RECURSIVE Unwind(_, _)
Unwind(callers, v) ==
    IF callers = <<>>
    THEN [pc |-> "done", pid |-> 0, callers |-> <<>>, ret |-> ListResult(v)]
    ELSE LET n == Len(callers)
             top == callers[n]
             bottom == top.bottom \o v
         IN  IF top.todo = <<>>
             THEN Unwind(SubSeq(callers, 1, n - 1), bottom)
             ELSE [pc |-> "lookup", pid |-> Head(top.todo),
                   callers |-> [callers EXCEPT ![n] = [pid |-> top.pid, todo |-> Tail(top.todo),
                                                       bottom |-> bottom]],
                   ret |-> NoResult]
\* walk after the running call returned v
Return(w, v) ==
    LET u == Unwind(w.callers, v)
    IN  [w EXCEPT !.pc = u.pc, !.pid = u.pid, !.callers = u.callers, !.ret = u.ret,
                  !.steps = @ + 1]

\* find_bottom_children(pid) is called
Call_find_bottom_children ==
    /\ walk.pc = "idle"
    /\ \E pid \in PidArgs :
         walk' = [walk EXCEPT !.pc = "lookup", !.fn = "find_bottom_children",
                              !.root = pid, !.pid = pid]
    /\ UNCHANGED <<ptable, execvars>>

\* try: process = psutil.Process(pid); except (NoSuchProcess, AccessDenied):
\* return []
Lookup ==
    /\ walk.pc = "lookup"
    /\ walk' = IF NoSuchProcess(ptable, walk.pid)
               THEN Return(walk, <<>>)
               ELSE [walk EXCEPT !.pc = "children", !.steps = @ + 1]
    /\ UNCHANGED <<ptable, execvars>>

\* children = process.children(), outside the try; return [process] if there
\* are none, else enter the for loop with the first child.  An exception
\* leaves every calling find_bottom_children too: none catches it.
ListChildren ==
    /\ walk.pc = "children"
    /\ IF walk.pid \in ptable.alive
       THEN LET kids == children(ptable, walk.pid)
            IN  walk' = IF kids = <<>>
                        THEN Return(walk, <<walk.pid>>)
                        ELSE [walk EXCEPT !.pc = "lookup", !.pid = Head(kids),
                                          !.callers = Append(@, [pid |-> walk.pid,
                                                                 todo |-> Tail(kids),
                                                                 bottom |-> <<>>]),
                                          !.steps = @ + 1]
       ELSE \E psutil \in GoneChildren :
              walk' = IF psutil = "NoSuchProcess"
                      THEN [walk EXCEPT !.pc = "done", !.callers = <<>>,
                                        !.ret = Raised("NoSuchProcess"), !.steps = @ + 1]
                      ELSE [Return(walk, <<walk.pid>>) EXCEPT !.stale = @ \cup {walk.pid}]
    /\ UNCHANGED <<ptable, execvars>>

\* process_exists(pid) is called
Call_process_exists ==
    /\ walk.pc = "idle"
    /\ \E pid \in PidArgs :
         walk' = [walk EXCEPT !.pc = "exists", !.fn = "process_exists",
                              !.root = pid, !.pid = pid]
    /\ UNCHANGED <<ptable, execvars>>

\* if os.path.exists(f"/proc/{pid}"): with no such entry the function ends
\* without a return statement, which returns None
PathExists ==
    /\ walk.pc = "exists"
    /\ walk' = IF walk.pid \in ptable.alive
               THEN [walk EXCEPT !.pc = "process", !.steps = @ + 1]
               ELSE [walk EXCEPT !.pc = "done", !.ret = NoneResult, !.via = "no_entry",
                                 !.steps = @ + 1]
    /\ UNCHANGED <<ptable, execvars>>

\* try: process = psutil.Process(pid); except psutil.NoSuchProcess: return False
ProcessLookup ==
    /\ walk.pc = "process"
    /\ walk' = IF NoSuchProcess(ptable, walk.pid)
               THEN [walk EXCEPT !.pc = "done", !.ret = BoolResult(FALSE),
                                 !.via = "NoSuchProcess", !.steps = @ + 1]
               ELSE [walk EXCEPT !.pc = "is_running", !.steps = @ + 1]
    /\ UNCHANGED <<ptable, execvars>>

\* return process.is_running()
IsRunning ==
    /\ walk.pc = "is_running"
    /\ walk' = [walk EXCEPT !.pc = "done", !.ret = BoolResult(walk.pid \in ptable.alive),
                            !.via = "is_running", !.steps = @ + 1]
    /\ UNCHANGED <<ptable, execvars>>

\* a process exits, whenever it likes; its children get a parent outside
\* the table
ProcessExit ==
    /\ walk.pc # "done"
    /\ \E p \in ptable.alive :
         ptable' = [parent |-> [c \in Pids |-> IF ptable.parent[c] = p THEN 0
                                               ELSE ptable.parent[c]],
                    alive |-> ptable.alive \ {p}]
    /\ walk' = [walk EXCEPT !.changed = @ \/ walk.pc # "idle"]
    /\ UNCHANGED execvars

ProcInit ==
    /\ NothingCalled
    /\ \E f \in Trees : ptable = [parent |-> f, alive |-> Pids]
    /\ walk = WalkIdle

ProcNext ==
    \/ Call_find_bottom_children
    \/ Lookup
    \/ ListChildren
    \/ Call_process_exists
    \/ PathExists
    \/ ProcessLookup
    \/ IsRunning
    \/ ProcessExit

ProcSpec == ProcInit /\ [][ProcNext]_vars

\* ------------------------------------------------------------------ claims
\* the failures _exec_cmd raises before it reaches the dry-run/spawn branch
PreSpawnFailures ==
    {"detach_with_capture_output", "shlex", "unknown_user", "helper_not_found"}
\* a call was made and _exec_cmd built its argument vector to the end
Assembled ==
    pc # "idle" /\ ~(outcome.kind = "raise" /\ outcome.what \in PreSpawnFailures)
NoProcessSpawned == spawns = <<>> /\ proc.state = "none"
ConfigurationError == Raise("ValueError", "detach_with_capture_output", None, None)
ToolNotFoundError == Raise("RuntimeError", "helper_not_found", None, None)

\* C1: every call of _exec_cmd with detach and capture_output both set,
\* whatever the other arguments, raises the configuration error, and no
\* process is spawned (nothing is printed either).
C1_DetachCaptureRejected ==
    (pc # "idle" /\ args.detach /\ args.capture_output) =>
        /\ pc = "done"
        /\ outcome = ConfigurationError
        /\ ret = outcome
        /\ NoProcessSpawned
        /\ printed = <<>>
C1_Witness ==
    /\ pc = "done" /\ args.detach /\ args.capture_output /\ args.dry_run
    /\ args.escalate # None /\ os.which = None
    /\ args.ns_pid # None /\ args.as_user = Some("ghost")
    /\ outcome = ConfigurationError

Unresolvable(u) == Truthy(u) /\ u[1] \notin KnownUsers

\* C3 as stated: if as_user is set but unresolvable, the call fails before
\* any process is spawned, with or without a namespace target.
C3_Original ==
    (pc # "idle" /\ Unresolvable(args.as_user)) =>
        outcome.kind = "raise" /\ NoProcessSpawned
\* C3 amended: if as_user is set but unresolvable and a namespace target is
\* set, the call fails before any process is spawned and before anything is
\* printed, in every mode and with or without escalation; the failure is the
\* identity resolver's unless the switches or the command line were
\* rejected first.  Without a namespace target as_user is not looked at.
C3_UnresolvableUserWithNamespace ==
    (pc # "idle" /\ Unresolvable(args.as_user) /\ args.ns_pid # None) =>
        /\ pc = "done"
        /\ outcome.kind = "raise"
        /\ outcome.what \in {"detach_with_capture_output", "shlex", "unknown_user"}
        /\ (~InvalidSwitches(args) /\ Tokenize(args).ok) => outcome.what = "unknown_user"
        /\ ret = outcome
        /\ NoProcessSpawned
        /\ printed = <<>>
C3_Witness ==
    /\ pc = "done" /\ Unresolvable(args.as_user) /\ args.ns_pid # None
    /\ args.dry_run /\ args.escalate # None /\ os.which # None
    /\ outcome.what = "unknown_user"

\* the environments a call with these arguments can meet
Environments(a) ==
    {[which |-> w, identity |-> id, check_ops |-> os.check_ops] :
        w \in WhichAnswers(a.escalate), id \in IdentityAnswers(a.ns_pid, a.as_user)}
DryRunRendered ==
    /\ pc = "done"
    /\ NoProcessSpawned
    /\ outcome = ReturnNone
    /\ printed = <<"DRY-RUN: " \o Join(" ", cmd_args)>>

\* C4 as stated: a dry run of a CommandSpec whose vector assembles spawns
\* nothing, prints the space-joined vector and returns None, and the line
\* printed is a function of the CommandSpec only: any environment in which
\* the vector assembles gives the same line.
C4_Original ==
    (Assembled /\ args.dry_run) =>
        /\ DryRunRendered
        /\ \A e2 \in Environments(args) :
              _exec_cmd(args, e2).step = "return" => _exec_cmd(args, e2).printed = printed
\* C4 amended: a dry run of a CommandSpec whose vector assembles (also with
\* detach set) spawns nothing, prints "DRY-RUN: " and the space-joined
\* vector, and returns None; the line is determined by the CommandSpec
\* together with the helper path shutil.which found and the uid/gid resolved
\* for as_user, so environments that agree on those give the same line.
C4_DryRun ==
    (Assembled /\ args.dry_run) =>
        /\ DryRunRendered
        /\ \A e2 \in Environments(args) :
              (e2.which = os.which /\ e2.identity = os.identity) =>
                  _exec_cmd(args, e2).printed = printed
C4_Witness ==
    /\ Assembled /\ args.dry_run /\ args.detach
    /\ printed = <<"DRY-RUN: /bin/sudo -n nsenter -t 1234 --all --wd=/srv --setuid=1001 --setgid=100 -- ls a b">>

\* a public operation was called (handle_ns ran)
PublicCall == pc # "idle" /\ op # "_exec_cmd"

\* C5 as stated: handle_ns returns an explicitly supplied mode unchanged,
\* an explicitly supplied None included.
C5_Original ==
    (PublicCall /\ pub.given) => args.escalate = pub.escalate
\* C5 amended: handle_ns returns an explicitly supplied sudo or pkexec
\* unchanged, for every namespace target and every policy answer (the policy
\* is not asked).  None is the argument's default: a caller passing None
\* explicitly is treated like one passing nothing, so with a namespace target
\* whose operations require elevation the mode becomes sudo.
C5_ExplicitHelperHonoured ==
    /\ (PublicCall /\ pub.escalate # None) =>
          /\ args.escalate = pub.escalate
          /\ os.check_ops = None
          /\ \A pol \in BOOL : handle_ns(pub.ns, pub.escalate, pol)[2] = pub.escalate
    /\ (PublicCall /\ pub.given /\ pub.escalate = None /\ pub.ns # None
        /\ os.check_ops = Some(FALSE)) => args.escalate = Some("sudo")
C5_Witness ==
    /\ PublicCall /\ pub.given /\ pub.escalate = Some("pkexec") /\ pub.ns # None
    /\ args.escalate = Some("pkexec") /\ cmd_args # <<>> /\ cmd_args[1] = "/usr/bin/pkexec"

\* C6: with no escalation mode supplied, handle_ns gives None when there is
\* no namespace target, without asking the policy; sudo when there is one and
\* check_ops says the operations are not permitted unelevated; None when
\* there is one and check_ops permits them.  pkexec is returned only if the
\* caller supplied pkexec.
C6_ImplicitEscalation ==
    /\ (PublicCall /\ ~pub.given) =>
          /\ pub.ns = None =>
                args.escalate = None /\ args.ns_pid = None /\ os.check_ops = None
          /\ pub.ns # None =>
                /\ args.ns_pid = Some(pub.ns[1].pid)
                /\ os.check_ops # None
                /\ os.check_ops = Some(FALSE) => args.escalate = Some("sudo")
                /\ os.check_ops = Some(TRUE) => args.escalate = None
    /\ (PublicCall /\ args.escalate = Some("pkexec")) =>
          pub.given /\ pub.escalate = Some("pkexec")
C6_Witness ==
    /\ PublicCall /\ ~pub.given /\ pub.ns # None /\ os.check_ops = Some(FALSE)
    /\ args.escalate = Some("sudo") /\ pc = "done" /\ outcome.kind = "CompletedProcess"

\* a public operation on a namespace target, no user context, no escalation
\* supplied, the policy requiring elevation, and the vector assembled
C7_Case ==
    /\ PublicCall /\ Assembled
    /\ pub.ns # None /\ args.as_user = None /\ pub.escalate = None
    /\ os.check_ops = Some(FALSE)
\* C7 as stated: the vector is exactly sudo -n nsenter -t <pid> --all --
\* followed by the command's tokens.
C7_Original ==
    C7_Case =>
        cmd_args = <<"sudo", "-n", "nsenter", "-t", str(pub.ns[1].pid), "--all", "--">>
                   \o Tokenize(args).toks
\* C7 amended: the vector is exactly <helper> -n nsenter -t <pid> --all
\* --wd=<cwd> -- followed by the command's tokens, where <helper> is the path
\* shutil.which("sudo") found and <cwd> the caller's current directory, which
\* every public operation passes as working_dir.
C7_PublicVector ==
    C7_Case =>
        /\ os.which # None /\ os.which[1] \in HelperPaths("sudo")
        /\ cmd_args = <<os.which[1], "-n", "nsenter", "-t", str(pub.ns[1].pid), "--all",
                        "--wd=" \o Cwd, "--">> \o Tokenize(args).toks
C7_Witness ==
    /\ C7_Case /\ op = "run_check_output" /\ args.cmd = <<"str", <<"l", "s">>>>
    /\ cmd_args = <<"/usr/bin/sudo", "-n", "nsenter", "-t", "1234", "--all",
                    "--wd=/home/op", "--", "ls">>

\* an escalation mode is set and its helper is not on the search path
HelperAbsent == pc # "idle" /\ args.escalate # None /\ os.which = None
\* C8 as stated: whenever an escalation mode is set and the helper is
\* absent, the call fails with the tool-not-found error and spawns nothing.
C8_Original ==
    HelperAbsent => outcome = ToolNotFoundError /\ NoProcessSpawned
\* C8 amended: whenever an escalation mode is set and the helper is absent,
\* the call fails, nothing is spawned and nothing is printed, in every mode;
\* the error is the tool-not-found error unless an earlier check has failed
\* (detach with capture_output, a command line shlex rejects, an as_user the
\* resolver does not know), in which case it is that check's error.
C8_HelperAbsentFails ==
    HelperAbsent =>
        /\ pc = "done"
        /\ outcome.kind = "raise" /\ outcome.what \in PreSpawnFailures
        /\ ret = outcome
        /\ NoProcessSpawned
        /\ printed = <<>>
        /\ (/\ ~InvalidSwitches(args)
            /\ Tokenize(args).ok
            /\ ~(ResolvesUser(args) /\ os.identity = None)) => outcome = ToolNotFoundError
C8_Witness ==
    /\ HelperAbsent /\ outcome = ToolNotFoundError /\ args.dry_run /\ args.detach
    /\ args.ns_pid # None /\ args.escalate = Some("pkexec")

\* a foreground call that spawned its process
Foreground == pc # "idle" /\ ~args.dry_run /\ ~args.detach /\ spawns # <<>>
\* C9: a foreground call does not return before the child has exited; with
\* check set and a return code other than 0 it raises CalledProcessError
\* carrying that code and the captured output (None if not captured); in
\* every other case it returns CompletedProcess with the child's return code.
C9_Foreground ==
    Foreground =>
        /\ pc \in {"blocked", "done"}
        /\ pc = "blocked" => outcome = Pending /\ ret = Pending
        /\ pc = "done" =>
              /\ proc.state = "exited" /\ proc.exit_pc = "blocked"
              /\ LET captured == IF args.capture_output THEN Some(proc.out) ELSE None
                 IN  IF args.check /\ proc.returncode # Some(0)
                     THEN /\ outcome = Raise("CalledProcessError", "nonzero_exit",
                                             proc.returncode, captured)
                          /\ ret = outcome
                     ELSE outcome = Value("CompletedProcess", proc.returncode, captured)
C9_Witness ==
    /\ Foreground /\ pc = "done" /\ args.check /\ args.capture_output
    /\ proc.returncode = Some(-1) /\ proc.out = "hi\n"
    /\ outcome = Raise("CalledProcessError", "nonzero_exit", Some(-1), Some("hi\n"))

\* detach_and_check has returned or raised after a successful detached spawn
CheckedDetach == op = "detach_and_check" /\ pc = "done" /\ spawns # <<>>
ImmediateExitError == Raise("RuntimeError", "exited_immediately", proc.returncode, None)
\* C10: after a successful detached spawn detach_and_check ends in one of
\* two ways: the child exited while the call waited, no later than the grace
\* period, and the call raises the immediate-exit error with the child's
\* return code, 0 included; or the grace period ran out with the child still
\* running and the handle is returned.  Until then the call has not returned.
C10_DetachAndCheck ==
    /\ CheckedDetach =>
          \/ /\ ret = ImmediateExitError
             /\ proc.state = "exited" /\ proc.exit_pc = "waiting"
             /\ proc.exit_at[1] <= pub.wait_time
          \/ /\ ret = Value("Popen", None, None)
             /\ proc.state = "running" \/ proc.exit_pc = "done"
             /\ elapsed >= pub.wait_time
    /\ pc = "waiting" => op = "detach_and_check" /\ ret = Pending /\ spawns # <<>>
C10_Witness ==
    /\ CheckedDetach /\ proc.returncode = Some(0) /\ ret = ImmediateExitError
    /\ pub.wait_time = MaxWait /\ proc.exit_at = Some(MaxWait)

\* C11: no public operation ever raises the "Expected CompletedProcess" or
\* "Expected Popen" error, whatever its arguments, dry_run included.
C11_Original ==
    ret.what \notin {"expected_CompletedProcess", "expected_Popen"}

\* C15: a call spawns at most one process, and none after the first:
\* exactly one when _exec_cmd ends in CompletedProcess, in the Popen handle
\* or in CalledProcessError, or detach_and_check in the immediate-exit error;
\* none when the call ends in the dry-run return, the configuration error,
\* the identity failure or the tool-not-found error.
C15_SinglePass ==
    /\ Len(spawns) <= 1
    /\ pc \in {"blocked", "waiting"} => Len(spawns) = 1
    /\ pc = "done" =>
          /\ outcome.kind \in {"CompletedProcess", "Popen"} => Len(spawns) = 1
          /\ outcome.type = "CalledProcessError" => Len(spawns) = 1
          /\ ret.what = "exited_immediately" => Len(spawns) = 1
          /\ outcome = ReturnNone => NoProcessSpawned
          /\ (outcome.kind = "raise" /\ outcome.what \in PreSpawnFailures) =>
                NoProcessSpawned
C15_Witness ==
    /\ pc = "done" /\ outcome.type = "CalledProcessError" /\ Len(spawns) = 1
    /\ op = "run_check" /\ proc.returncode = Some(1)

\* a detached call that spawned its process
Detached == pc # "idle" /\ args.detach /\ ~args.dry_run /\ spawns # <<>>
\* C16: in detach mode _exec_cmd returns the Popen handle at the spawn,
\* without waiting: the child is still running then and exits, if it does,
\* after the return; its exit code never turns the outcome into an error,
\* check set or not; the child leads a new session, and its three standard
\* streams are DEVNULL, or the caller's own if passthrough is set.
C16_DetachReturnsAtOnce ==
    Detached =>
        /\ pc \in {"done", "waiting"}
        /\ outcome = Value("Popen", None, None)
        /\ proc.state = "exited" => proc.exit_pc \in {"done", "waiting"}
        /\ spawns[1].start_new_session
        /\ LET stream == IF args.passthrough THEN "inherit" ELSE "DEVNULL"
           IN  /\ spawns[1].stdin = stream
               /\ spawns[1].stdout = stream
               /\ spawns[1].stderr = stream
C16_Witness ==
    /\ Detached /\ op = "_exec_cmd" /\ args.check /\ ~args.passthrough
    /\ proc.returncode = Some(1) /\ outcome.kind = "Popen"
    /\ spawns[1].stdout = "DEVNULL"

\* C17: run_code_output and run_check_code give the child's return code
\* back, whatever it is (with the captured output, for run_code_output).
C17_Original ==
    (/\ op \in {"run_code_output", "run_check_code"}
     /\ pc = "done" /\ Foreground) =>
        /\ ret.kind = IF op = "run_code_output" THEN "tuple" ELSE "int"
        /\ ret.returncode = proc.returncode

IdentityFails(a, e) == ResolvesUser(a) /\ e.identity = None
\* C18 as stated: the configuration error comes first, then the identity
\* failure (looked for only with a namespace target), then the
\* tool-not-found error; each is raised before any spawn or rendering.
C18_Original ==
    pc # "idle" =>
        /\ InvalidSwitches(args) => outcome = ConfigurationError
        /\ (~InvalidSwitches(args) /\ IdentityFails(args, os)) =>
              outcome.what = "unknown_user"
        /\ (~InvalidSwitches(args) /\ ~IdentityFails(args, os) /\ HelperMissing(args, os)) =>
              outcome = ToolNotFoundError
\* C18 amended: the checks come in the order configuration error, the
\* ValueError of a command string shlex cannot split, identity failure
\* (looked for only with a namespace target), tool-not-found error.  The
\* first that fails is the one raised, whatever the later ones would find
\* in any environment, and it is raised before any spawn or rendering.
C18_Precedence ==
    pc # "idle" =>
        LET bad == InvalidSwitches(args)
            unsplit == ~Tokenize(args).ok
            nouser == IdentityFails(args, os)
            nohelper == HelperMissing(args, os)
        IN  /\ bad => /\ outcome = ConfigurationError
                      /\ \A e2 \in Environments(args) : _exec_cmd(args, e2).exc = outcome
            /\ (~bad /\ unsplit) =>
                  /\ outcome = Raise("ValueError", "shlex", None, None)
                  /\ \A e2 \in Environments(args) : _exec_cmd(args, e2).exc = outcome
            /\ (~bad /\ ~unsplit /\ nouser) =>
                  /\ outcome.what = "unknown_user"
                  /\ \A e2 \in Environments(args) :
                        e2.identity = os.identity => _exec_cmd(args, e2).exc = outcome
            /\ (~bad /\ ~unsplit /\ ~nouser /\ nohelper) => outcome = ToolNotFoundError
            /\ (bad \/ unsplit \/ nouser \/ nohelper) =>
                  pc = "done" /\ ret = outcome /\ NoProcessSpawned /\ printed = <<>>
            /\ ~(bad \/ unsplit \/ nouser \/ nohelper) => Assembled
C18_Witness ==
    /\ pc = "done" /\ ~InvalidSwitches(args) /\ Tokenize(args).ok
    /\ IdentityFails(args, os) /\ HelperMissing(args, os) /\ args.dry_run
    /\ outcome.what = "unknown_user"

\* --------------------------------------------- claims on the process table
WalkDone == walk.fn = "find_bottom_children" /\ walk.pc = "done"
ProbeDone == walk.fn = "process_exists" /\ walk.pc = "done"
\* C12: find_bottom_children never raises because a process vanished: a
\* root that does not exist gives the empty list, and whenever processes
\* exit while it walks, it returns a list, in which no process is that had
\* vanished when it was inspected.
C12_Original ==
    WalkDone =>
        /\ walk.ret.kind = "list"
        /\ walk.stale = {}
        /\ (walk.steps = 1) => walk.ret.leaves = <<>>

\* whether p is r or below r in the tree
RECURSIVE Under(_, _)
Under(p, r) == p = r \/ (ptable.parent[p] # 0 /\ Under(ptable.parent[p], r))
\* the live processes at or below r that have no live child
ChildlessDescendants(r) ==
    {p \in ptable.alive : Under(p, r) /\ ~\E c \in ptable.alive : ptable.parent[c] = p}
C14_Original ==
    ProbeDone =>
        /\ walk.ret.kind = "bool"
        /\ walk.via \in {"no_entry", "NoSuchProcess"} => walk.ret.answer = FALSE
        /\ walk.ret.answer => walk.via = "is_running" /\ walk.steps = 3
====
